---- MODULE Spec2Model ----
(***************************************************************************)
(* Civil-time arithmetic of cctz (include/civil_time_detail.h): the field  *)
(* normalizer, the day-ordinal converter, the alignment-parameterized      *)
(* civil_time<T> value with its stepping, difference and comparison        *)
(* operators, and the weekday utilities.                                   *)
(*                                                                         *)
(* The C++ "int" is the 32-bit two's-complement int.  TLC's own integers   *)
(* have the same range and TLC stops with an error on any overflow, so     *)
(* every arithmetic step below that TLC evaluates stays inside int; the    *)
(* places where the C++ code can overflow (undefined behaviour) are        *)
(* modelled explicitly as a choice among the outcomes a build produces.    *)
(***************************************************************************)
EXTENDS Integers, Sequences, FiniteSets, TLC

\* std::numeric_limits<int>::max() and ::min() of the 32-bit int.
MaxInt == 2147483647
MinInt == -MaxInt - 1

---------------------------------------------------------------------------
\* C++ integer division and remainder (truncation toward zero), b > 0.
CDiv(a, b) ==
  IF a >= 0 THEN a \div b
  ELSE IF a % b = 0 THEN a \div b ELSE (a \div b) + 1

CMod(a, b) ==
  IF a >= 0 \/ a % b = 0 THEN a % b ELSE (a % b) - b

\* a + b and a - b in two's-complement (wrapping) int arithmetic, and whether
\* the exact result fits in int.
AddFits(a, b) == IF b >= 0 THEN a <= MaxInt - b ELSE a >= MinInt - b

SubFits(a, b) == IF b >= 0 THEN a >= MinInt + b ELSE a <= MaxInt + b

AddWrap(a, b) ==
  IF AddFits(a, b) THEN a + b
  ELSE IF b > 0 THEN ((a - MaxInt) - 1) + ((b - MaxInt) - 1)
  ELSE ((a + MaxInt) + 1) + ((b + MaxInt) + 1)

SubWrap(a, b) ==
  IF SubFits(a, b) THEN a - b
  ELSE IF b = MinInt THEN (a - MaxInt) - 1
  ELSE AddWrap(a, -b)

\* a * b for a constant b > 0: whether the exact product fits in int, and the
\* wrapping product (by repeated wrapping addition when it does not fit).
MulFits(a, b) ==
  IF a >= 0 THEN a <= MaxInt \div b ELSE a >= CDiv(MinInt, b)

RECURSIVE MulWrap(_, _)
MulWrap(a, b) ==
  IF b = 0 THEN 0
  ELSE IF MulFits(a, b) THEN a * b
  ELSE LET h == MulWrap(a, b \div 2)
           t == AddWrap(h, h)
       IN IF b % 2 = 1 THEN AddWrap(t, a) ELSE t

---------------------------------------------------------------------------
\* struct fields and the alignment tags.
Fields(y, m, d, hh, mm, ss) ==
  [y |-> y, m |-> m, d |-> d, hh |-> hh, mm |-> mm, ss |-> ss]

Tags == {"second", "minute", "hour", "day", "month", "year"}

\* The tag hierarchy second_tag <- minute_tag <- ... <- year_tag as a rank.
TagRank(T) ==
  CASE T = "second" -> 0 [] T = "minute" -> 1 [] T = "hour" -> 2
    [] T = "day" -> 3 [] T = "month" -> 4 [] T = "year" -> 5

---------------------------------------------------------------------------
\* Field normalization (namespace impl).
\* Faulty variant: the Julian rule, every fourth year.
is_leap_year_julian(y) == CMod(y, 4) = 0

is_leap_year(y) ==
  CMod(y, 4) = 0 /\ (CMod(y, 100) # 0 \/ CMod(y, 400) = 0)

BoolInt(b) == IF b THEN 1 ELSE 0

year_index(y, m) == CMod(CMod(y + BoolInt(m > 2), 400) + 400, 400)

k_days_per_century ==
  <<
    1, 0, 0, 0, 0, 0, 0, 0, 0, 0, 0, 0, 0, 0, 0, 0, 0, 0, 0, 0, 0, 0, 0, 0, 0,
    0, 0, 0, 0, 0, 0, 0, 0, 0, 0, 0, 0, 0, 0, 0, 0, 0, 0, 0, 0, 0, 0, 0, 0, 0,
    0, 0, 0, 0, 0, 0, 0, 0, 0, 0, 0, 0, 0, 0, 0, 0, 0, 0, 0, 0, 0, 0, 0, 0, 0,
    0, 0, 0, 0, 0, 0, 0, 0, 0, 0, 0, 0, 0, 0, 0, 0, 0, 0, 0, 0, 0, 0, 0, 0, 0,
    0, 0, 0, 0, 0, 0, 0, 0, 0, 0, 0, 0, 0, 0, 0, 0, 0, 0, 0, 0, 0, 0, 0, 0, 0,
    0, 0, 0, 0, 0, 0, 0, 0, 0, 0, 0, 0, 0, 0, 0, 0, 0, 0, 0, 0, 0, 0, 0, 0, 0,
    0, 0, 0, 0, 0, 0, 0, 0, 0, 0, 0, 0, 0, 0, 0, 0, 0, 0, 0, 0, 0, 0, 0, 0, 0,
    0, 0, 0, 0, 0, 0, 0, 0, 0, 0, 0, 0, 0, 0, 0, 0, 0, 0, 0, 0, 0, 0, 0, 0, 0,
    0, 0, 0, 0, 0, 0, 0, 0, 0, 0, 0, 0, 0, 0, 0, 0, 0, 0, 0, 0, 0, 0, 0, 0, 0,
    0, 0, 0, 0, 0, 0, 0, 0, 0, 0, 0, 0, 0, 0, 0, 0, 0, 0, 0, 0, 0, 0, 0, 0, 0,
    0, 0, 0, 0, 0, 0, 0, 0, 0, 0, 0, 0, 0, 0, 0, 0, 0, 0, 0, 0, 0, 0, 0, 0, 0,
    0, 0, 0, 0, 0, 0, 0, 0, 0, 0, 0, 0, 0, 0, 0, 0, 0, 0, 0, 0, 0, 0, 0, 0, 0,
    0, 1, 1, 1, 1, 1, 1, 1, 1, 1, 1, 1, 1, 1, 1, 1, 1, 1, 1, 1, 1, 1, 1, 1, 1,
    1, 1, 1, 1, 1, 1, 1, 1, 1, 1, 1, 1, 1, 1, 1, 1, 1, 1, 1, 1, 1, 1, 1, 1, 1,
    1, 1, 1, 1, 1, 1, 1, 1, 1, 1, 1, 1, 1, 1, 1, 1, 1, 1, 1, 1, 1, 1, 1, 1, 1,
    1, 1, 1, 1, 1, 1, 1, 1, 1, 1, 1, 1, 1, 1, 1, 1, 1, 1, 1, 1, 1, 1, 1, 1, 1
  >>

days_per_century(y, m) == 36524 + k_days_per_century[year_index(y, m) + 1]

k_days_per_4years ==
  <<
    1, 1, 1, 1, 1, 1, 1, 1, 1, 1, 1, 1, 1, 1, 1, 1, 1, 1, 1, 1, 1, 1, 1, 1, 1,
    1, 1, 1, 1, 1, 1, 1, 1, 1, 1, 1, 1, 1, 1, 1, 1, 1, 1, 1, 1, 1, 1, 1, 1, 1,
    1, 1, 1, 1, 1, 1, 1, 1, 1, 1, 1, 1, 1, 1, 1, 1, 1, 1, 1, 1, 1, 1, 1, 1, 1,
    1, 1, 1, 1, 1, 1, 1, 1, 1, 1, 1, 1, 1, 1, 1, 1, 1, 1, 1, 1, 1, 1, 0, 0, 0,
    0, 1, 1, 1, 1, 1, 1, 1, 1, 1, 1, 1, 1, 1, 1, 1, 1, 1, 1, 1, 1, 1, 1, 1, 1,
    1, 1, 1, 1, 1, 1, 1, 1, 1, 1, 1, 1, 1, 1, 1, 1, 1, 1, 1, 1, 1, 1, 1, 1, 1,
    1, 1, 1, 1, 1, 1, 1, 1, 1, 1, 1, 1, 1, 1, 1, 1, 1, 1, 1, 1, 1, 1, 1, 1, 1,
    1, 1, 1, 1, 1, 1, 1, 1, 1, 1, 1, 1, 1, 1, 1, 1, 1, 1, 1, 1, 1, 1, 0, 0, 0,
    0, 1, 1, 1, 1, 1, 1, 1, 1, 1, 1, 1, 1, 1, 1, 1, 1, 1, 1, 1, 1, 1, 1, 1, 1,
    1, 1, 1, 1, 1, 1, 1, 1, 1, 1, 1, 1, 1, 1, 1, 1, 1, 1, 1, 1, 1, 1, 1, 1, 1,
    1, 1, 1, 1, 1, 1, 1, 1, 1, 1, 1, 1, 1, 1, 1, 1, 1, 1, 1, 1, 1, 1, 1, 1, 1,
    1, 1, 1, 1, 1, 1, 1, 1, 1, 1, 1, 1, 1, 1, 1, 1, 1, 1, 1, 1, 1, 1, 0, 0, 0,
    0, 1, 1, 1, 1, 1, 1, 1, 1, 1, 1, 1, 1, 1, 1, 1, 1, 1, 1, 1, 1, 1, 1, 1, 1,
    1, 1, 1, 1, 1, 1, 1, 1, 1, 1, 1, 1, 1, 1, 1, 1, 1, 1, 1, 1, 1, 1, 1, 1, 1,
    1, 1, 1, 1, 1, 1, 1, 1, 1, 1, 1, 1, 1, 1, 1, 1, 1, 1, 1, 1, 1, 1, 1, 1, 1,
    1, 1, 1, 1, 1, 1, 1, 1, 1, 1, 1, 1, 1, 1, 1, 1, 1, 1, 1, 1, 1, 1, 1, 1, 1
  >>

\* Faulty variant: every four-year span holds a leap day.
days_per_4years_flat(y, m) == 1461

days_per_4years(y, m) == 1460 + k_days_per_4years[year_index(y, m) + 1]

days_per_year(y, m) == IF is_leap_year(y + BoolInt(m > 2)) THEN 366 ELSE 365

k_dpm == <<31, 28, 31, 30, 31, 30, 31, 31, 30, 31, 30, 31>>

days_per_month(y, m) == k_dpm[m] + BoolInt(m = 2 /\ is_leap_year(y))

\* n_day, statement by statement: each operator is one step of the function
\* and hands the updated locals (y, m, d, c, n) to the next.  The four while
\* loops are the four recursive operators; n is the loop's period length.
RECURSIVE n_day_months(_, _, _, _, _, _, _)
n_day_months(y, m, d, n, hh, mm, ss) ==
  IF d > n
  THEN IF m = 12
       THEN n_day_months(y + 1, 1, d - n, days_per_month(y + 1, 1),
                         hh, mm, ss)
       ELSE n_day_months(y, m + 1, d - n, days_per_month(y, m + 1),
                         hh, mm, ss)
  ELSE Fields(y, m, d, hh, mm, ss)

RECURSIVE n_day_years(_, _, _, _, _, _, _)
n_day_years(y, m, d, n, hh, mm, ss) ==
  IF d > n
  THEN n_day_years(y + 1, m, d - n, days_per_year(y + 1, m), hh, mm, ss)
  ELSE n_day_months(y, m, d, days_per_month(y, m), hh, mm, ss)

RECURSIVE n_day_4years(_, _, _, _, _, _, _)
n_day_4years(y, m, d, n, hh, mm, ss) ==
  IF d > n
  THEN n_day_4years(y + 4, m, d - n, days_per_4years(y + 4, m), hh, mm, ss)
  ELSE n_day_years(y, m, d, days_per_year(y, m), hh, mm, ss)

RECURSIVE n_day_centuries(_, _, _, _, _, _, _)
n_day_centuries(y, m, d, n, hh, mm, ss) ==
  IF d > n
  THEN n_day_centuries(y + 100, m, d - n, days_per_century(y + 100, m),
                       hh, mm, ss)
  ELSE n_day_4years(y, m, d, days_per_4years(y, m), hh, mm, ss)

\* if (d <= 0) { y -= 400; d += 146097; }
n_day_borrow_d(y, m, d, hh, mm, ss) ==
  IF d <= 0
  THEN n_day_centuries(y - 400, m, d + 146097, days_per_century(y - 400, m),
                       hh, mm, ss)
  ELSE n_day_centuries(y, m, d, days_per_century(y, m), hh, mm, ss)

\* y += (d / 146097) * 400; d = d % 146097 + c;
n_day_fold_d(y, m, d, c, hh, mm, ss) ==
  n_day_borrow_d(y + CDiv(d, 146097) * 400, m, CMod(d, 146097) + c,
                 hh, mm, ss)

\* if (c < 0) { y -= 400; c += 146097; }
n_day_borrow_c(y, m, d, c, hh, mm, ss) ==
  IF c < 0 THEN n_day_fold_d(y - 400, m, d, c + 146097, hh, mm, ss)
  ELSE n_day_fold_d(y, m, d, c, hh, mm, ss)

\* y += (c / 146097) * 400; c %= 146097;
n_day(y, m, d, c, hh, mm, ss) ==
  n_day_borrow_c(y + CDiv(c, 146097) * 400, m, d, CMod(c, 146097),
                 hh, mm, ss)

\* if (m <= 0) { y -= 1; m += 12; }
n_mon_borrow(y, m, d, cd, hh, mm, ss) ==
  IF m <= 0 THEN n_day(y - 1, m + 12, d, cd, hh, mm, ss)
  ELSE n_day(y, m, d, cd, hh, mm, ss)

n_mon(y, m, d, cd, hh, mm, ss) ==
  n_mon_borrow(y + CDiv(m, 12), CMod(m, 12), d, cd, hh, mm, ss)

\* Faulty variant: the borrowed day is not added back to hh.
n_hour_borrow_keep(y, m, d, c, hh, mm, ss) ==
  IF hh < 0 THEN n_mon(y, m, d, c - 1, hh, mm, ss)
  ELSE n_mon(y, m, d, c, hh, mm, ss)

\* if (hh < 0) { c -= 1; hh += 24; }
n_hour_borrow(y, m, d, c, hh, mm, ss) ==
  IF hh < 0 THEN n_mon(y, m, d, c - 1, hh + 24, mm, ss)
  ELSE n_mon(y, m, d, c, hh, mm, ss)

n_hour(y, m, d, c, hh, mm, ss) ==
  n_hour_borrow(y, m, d, c + CDiv(hh, 24), CMod(hh, 24), mm, ss)

\* if (mm < 0) { c -= 1; mm += 60; } and the call of n_hour
n_min_borrow(y, m, d, hh, c, mm, ss) ==
  IF mm < 0
  THEN n_hour(y, m, d, CDiv(hh, 24) + CDiv(c - 1, 24),
              CMod(hh, 24) + CMod(c - 1, 24), mm + 60, ss)
  ELSE n_hour(y, m, d, CDiv(hh, 24) + CDiv(c, 24),
              CMod(hh, 24) + CMod(c, 24), mm, ss)

n_min(y, m, d, hh, c, mm, ss) ==
  n_min_borrow(y, m, d, hh, c + CDiv(mm, 60), CMod(mm, 60), ss)

\* Faulty variant: a negative remainder is lifted without borrowing a minute.
n_sec_borrow_nocarry(y, m, d, hh, mm, c, ss) ==
  n_min(y, m, d, hh, CDiv(mm, 60) + CDiv(c, 60),
        CMod(mm, 60) + CMod(c, 60), IF ss < 0 THEN ss + 60 ELSE ss)

\* if (ss < 0) { c -= 1; ss += 60; } and the call of n_min
n_sec_borrow(y, m, d, hh, mm, c, ss) ==
  IF ss < 0
  THEN n_min(y, m, d, hh, CDiv(mm, 60) + CDiv(c - 1, 60),
             CMod(mm, 60) + CMod(c - 1, 60), ss + 60)
  ELSE n_min(y, m, d, hh, CDiv(mm, 60) + CDiv(c, 60),
             CMod(mm, 60) + CMod(c, 60), ss)

n_sec(y, m, d, hh, mm, ss) ==
  n_sec_borrow(y, m, d, hh, mm, CDiv(ss, 60), CMod(ss, 60))

---------------------------------------------------------------------------
\* Day ordinal: days before/after 1970-01-01 of a normalized Y/M/D.  The int
\* operations on the year are taken in their wrapping form; the _fits
\* operators say that none of them overflowed ("Will overflow outside of the
\* range [-5877641-06-23 ... 5881580-07-11]").  m and d are normalized, so
\* doy stays small.
doy(m, d) == CDiv(153 * (m + (IF m > 2 THEN -3 ELSE 9)) + 2, 5) + d - 1

doe(yoe, m, d) ==
  AddWrap(SubWrap(AddWrap(MulWrap(yoe, 365), CDiv(yoe, 4)), CDiv(yoe, 100)),
          doy(m, d))

doe_fits(yoe, m, d) ==
  /\ MulFits(yoe, 365)
  /\ AddFits(yoe * 365, CDiv(yoe, 4))
  /\ SubFits(yoe * 365 + CDiv(yoe, 4), CDiv(yoe, 100))
  /\ AddFits(yoe * 365 + CDiv(yoe, 4) - CDiv(yoe, 100), doy(m, d))

era_eymd_ord(era, eyear, m, d) ==
  SubWrap(AddWrap(MulWrap(era, 146097),
                  doe(SubWrap(eyear, MulWrap(era, 400)), m, d)),
          719468)

era_eymd_ord_fits(era, eyear, m, d) ==
  /\ MulFits(era, 146097)
  /\ MulFits(era, 400)
  /\ SubFits(eyear, era * 400)
  /\ doe_fits(eyear - era * 400, m, d)
  /\ AddFits(era * 146097, doe(eyear - era * 400, m, d))
  /\ SubFits(era * 146097 + doe(eyear - era * 400, m, d), 719468)

eymd_ord(eyear, m, d) ==
  era_eymd_ord(CDiv(IF eyear >= 0 THEN eyear ELSE SubWrap(eyear, 399), 400),
               eyear, m, d)

eymd_ord_fits(eyear, m, d) ==
  /\ eyear >= 0 \/ SubFits(eyear, 399)
  /\ era_eymd_ord_fits(CDiv(IF eyear >= 0 THEN eyear ELSE eyear - 399, 400),
                       eyear, m, d)

ymd_ord(y, m, d) == eymd_ord(IF m <= 2 THEN SubWrap(y, 1) ELSE y, m, d)

ymd_ord_fits(y, m, d) ==
  /\ m > 2 \/ SubFits(y, 1)
  /\ eymd_ord_fits(IF m <= 2 THEN y - 1 ELSE y, m, d)

---------------------------------------------------------------------------
\* align(tag, f): the fields below the alignment forced to their minimum.
align(T, f) ==
  CASE T = "second" -> f
    [] T = "minute" -> Fields(f.y, f.m, f.d, f.hh, f.mm, 0)
    [] T = "hour"   -> Fields(f.y, f.m, f.d, f.hh, 0, 0)
    [] T = "day"    -> Fields(f.y, f.m, f.d, 0, 0, 0)
    [] T = "month"  -> Fields(f.y, f.m, 1, 0, 0, 0)
    [] T = "year"   -> Fields(f.y, 1, 1, 0, 0, 0)

\* step(tag, f, n): the indicated (normalized) field incremented by n.
step(T, f, n) ==
  CASE T = "second" ->
         n_sec(f.y, f.m, f.d, f.hh, f.mm + CDiv(n, 60), f.ss + CMod(n, 60))
    [] T = "minute" ->
         n_min(f.y, f.m, f.d, f.hh + CDiv(n, 60), 0, f.mm + CMod(n, 60), f.ss)
    [] T = "hour" ->
         n_hour(f.y, f.m, f.d + CDiv(n, 24), 0, f.hh + CMod(n, 24), f.mm, f.ss)
    [] T = "day" -> n_day(f.y, f.m, f.d, n, f.hh, f.mm, f.ss)
    [] T = "month" ->
         n_mon(f.y + CDiv(n, 12), f.m + CMod(n, 12), f.d, 0, f.hh, f.mm, f.ss)
    [] T = "year" -> Fields(AddWrap(f.y, n), f.m, f.d, f.hh, f.mm, f.ss)

---------------------------------------------------------------------------
\* difference(tag, f1, f2), in int arithmetic.  Each int operation is taken
\* in its wrapping form, and difference_fits says that none of them overflowed
\* (when one does, the C++ behaviour is undefined).
difference_year(f1, f2) == SubWrap(f1.y, f2.y)

difference_month(f1, f2) ==
  AddWrap(MulWrap(difference_year(f1, f2), 12), f1.m - f2.m)

difference_day(f1, f2) ==
  SubWrap(ymd_ord(f1.y, f1.m, f1.d), ymd_ord(f2.y, f2.m, f2.d))

difference_hour(f1, f2) ==
  AddWrap(MulWrap(difference_day(f1, f2), 24), f1.hh - f2.hh)

difference_minute(f1, f2) ==
  AddWrap(MulWrap(difference_hour(f1, f2), 60), f1.mm - f2.mm)

difference_second(f1, f2) ==
  AddWrap(MulWrap(difference_minute(f1, f2), 60), f1.ss - f2.ss)

difference(T, f1, f2) ==
  CASE T = "year"   -> difference_year(f1, f2)
    [] T = "month"  -> difference_month(f1, f2)
    [] T = "day"    -> difference_day(f1, f2)
    [] T = "hour"   -> difference_hour(f1, f2)
    [] T = "minute" -> difference_minute(f1, f2)
    [] T = "second" -> difference_second(f1, f2)

difference_fits(T, f1, f2) ==
  LET yf  == SubFits(f1.y, f2.y)
      mf  == /\ yf
             /\ MulFits(difference_year(f1, f2), 12)
             /\ AddFits(difference_year(f1, f2) * 12, f1.m - f2.m)
      df  == /\ ymd_ord_fits(f1.y, f1.m, f1.d)
             /\ ymd_ord_fits(f2.y, f2.m, f2.d)
             /\ SubFits(ymd_ord(f1.y, f1.m, f1.d), ymd_ord(f2.y, f2.m, f2.d))
      hf  == /\ df
             /\ MulFits(difference_day(f1, f2), 24)
             /\ AddFits(difference_day(f1, f2) * 24, f1.hh - f2.hh)
      mnf == /\ hf
             /\ MulFits(difference_hour(f1, f2), 60)
             /\ AddFits(difference_hour(f1, f2) * 60, f1.mm - f2.mm)
      sf  == /\ mnf
             /\ MulFits(difference_minute(f1, f2), 60)
             /\ AddFits(difference_minute(f1, f2) * 60, f1.ss - f2.ss)
  IN CASE T = "year"   -> yf
       [] T = "month"  -> mf
       [] T = "day"    -> df
       [] T = "hour"   -> hf
       [] T = "minute" -> mnf
       [] T = "second" -> sf

---------------------------------------------------------------------------
\* Relational operators on two civil times of any alignments; they read the
\* six fields only.
\* Faulty variant: the comparison stops at the minute.
op_lt_coarse(lhs, rhs) ==
  <<lhs.y, lhs.m, lhs.d, lhs.hh, lhs.mm>> # <<rhs.y, rhs.m, rhs.d, rhs.hh, rhs.mm>>
  /\ LET i == CHOOSE j \in 1 .. 5 :
                /\ <<lhs.y, lhs.m, lhs.d, lhs.hh, lhs.mm>>[j]
                     # <<rhs.y, rhs.m, rhs.d, rhs.hh, rhs.mm>>[j]
                /\ \A h \in 1 .. (j - 1) :
                     <<lhs.y, lhs.m, lhs.d, lhs.hh, lhs.mm>>[h]
                       = <<rhs.y, rhs.m, rhs.d, rhs.hh, rhs.mm>>[h]
     IN <<lhs.y, lhs.m, lhs.d, lhs.hh, lhs.mm>>[i]
          < <<rhs.y, rhs.m, rhs.d, rhs.hh, rhs.mm>>[i]

op_lt(lhs, rhs) ==
  \/ lhs.y < rhs.y
  \/ /\ lhs.y = rhs.y
     /\ \/ lhs.m < rhs.m
        \/ /\ lhs.m = rhs.m
           /\ \/ lhs.d < rhs.d
              \/ /\ lhs.d = rhs.d
                 /\ \/ lhs.hh < rhs.hh
                    \/ /\ lhs.hh = rhs.hh
                       /\ \/ lhs.mm < rhs.mm
                          \/ /\ lhs.mm = rhs.mm
                             /\ lhs.ss < rhs.ss

op_le(lhs, rhs) == ~op_lt(rhs, lhs)

op_ge(lhs, rhs) == ~op_lt(lhs, rhs)

op_gt(lhs, rhs) == op_lt(rhs, lhs)

op_eq(lhs, rhs) ==
  /\ lhs.y = rhs.y /\ lhs.m = rhs.m /\ lhs.d = rhs.d
  /\ lhs.hh = rhs.hh /\ lhs.mm = rhs.mm /\ lhs.ss = rhs.ss

op_ne(lhs, rhs) == ~op_eq(lhs, rhs)

---------------------------------------------------------------------------
\* civil_time<T>: construction, conversion and arithmetic on (T, f_).
civil_time(T, y, m, d, hh, mm, ss) == align(T, n_sec(y, m, d, hh, mm, ss))

\* civil_time(): the default constructor, civil_time(1970).
civil_time_default(T) == civil_time(T, 1970, 1, 1, 0, 0, 0)

\* civil_time<T>(const civil_time<U>&), implicit or explicit.
civil_time_convert(T, f) == align(T, f)

\* The year stays inside int in step(T, f, n).  For the year alignment this
\* is exact; for the others it is a sufficient condition (the year moves by
\* less than 2^31 / 12 + 1).
step_fits(T, f, n) ==
  IF T = "year" THEN AddFits(f.y, n)
  ELSE f.y >= -1000000000 /\ f.y <= 1000000000

\* step(T, f, n) has a value in wrapping arithmetic: for the year alignment
\* f.y + n always does (it wraps when it does not fit).
step_wraps(T, f, n) == T = "year" \/ step_fits(T, f, n)

plus_assign(T, f, n) == step(T, f, n)

\* Faulty variant: INT_MIN is stepped as INT_MAX, one unit short.
minus_assign_short(T, f, n) ==
  IF n # MinInt THEN step(T, f, -n) ELSE step(T, f, -(n + 1))

minus_assign(T, f, n) ==
  IF n # MinInt THEN step(T, f, -n)
  ELSE step(T, step(T, f, -(n + 1)), 1)

minus_assign_fits(T, f, n) ==
  IF n # MinInt THEN step_fits(T, f, -n)
  ELSE step_fits(T, f, -(n + 1)) /\ step_fits(T, step(T, f, -(n + 1)), 1)

op_plus(T, f, n) == align(T, step(T, f, n))

\* The possible values of the int expression -n: n = INT_MIN overflows, which
\* a build either wraps to INT_MIN or traps on (-ftrapv).
neg_outcomes(n) ==
  IF n # MinInt THEN {[trap |-> FALSE, val |-> -n]}
  ELSE {[trap |-> FALSE, val |-> MinInt], [trap |-> TRUE, val |-> 0]}

op_minus(T, f, negn) == align(T, step(T, f, negn))

\* What operator-(a, n) can do: for n # INT_MIN, return the stepped value;
\* for n = INT_MIN the negation overflows, and the build traps or goes on
\* with -n wrapped to INT_MIN (where the year alignment's f.y + INT_MIN
\* wraps once more when f.y < 0).
op_minus_defined(T, f, n) ==
  IF n # MinInt THEN step_fits(T, f, -n) ELSE step_wraps(T, f, MinInt)

---------------------------------------------------------------------------
\* Weekdays (enum class weekday) and get_weekday.
Weekdays ==
  <<"monday", "tuesday", "wednesday", "thursday", "friday", "saturday",
    "sunday">>

k_weekday_by_thu_off ==
  <<"thursday", "friday", "saturday", "sunday", "monday", "tuesday",
    "wednesday">>

weekday_index(cdf) ==
  CMod(CMod(difference("day", cdf, civil_time_default("day")), 7) + 7, 7)

\* Faulty variant: the table that starts on Monday.
get_weekday_monday(cdf) == Weekdays[weekday_index(cdf) + 1]

get_weekday(cdf) == k_weekday_by_thu_off[weekday_index(cdf) + 1]

\* next_weekday / prev_weekday: do { cd += 1; } while (get_weekday(cd) != wd),
\* as the loop variable cd and the number of iterations run so far.  The loop
\* is cut off after MaxIter iterations.
MaxIter == 10

RECURSIVE next_weekday_loop(_, _, _)
next_weekday_loop(cdf, wd, iters) ==
  LET cd1 == plus_assign("day", cdf, 1)
  IN IF get_weekday(cd1) # wd /\ iters + 1 < MaxIter
     THEN next_weekday_loop(cd1, wd, iters + 1)
     ELSE [f |-> cd1, iters |-> iters + 1]

\* Faulty variant: while (...) { cd += 1; } instead of do ... while.
next_weekday_while(cdf, wd) ==
  IF get_weekday(cdf) = wd THEN [f |-> cdf, iters |-> 0]
  ELSE next_weekday_loop(cdf, wd, 0)

next_weekday(cdf, wd) == next_weekday_loop(cdf, wd, 0)

RECURSIVE prev_weekday_loop(_, _, _)
prev_weekday_loop(cdf, wd, iters) ==
  LET cd1 == minus_assign("day", cdf, 1)
  IN IF get_weekday(cd1) # wd /\ iters + 1 < MaxIter
     THEN prev_weekday_loop(cd1, wd, iters + 1)
     ELSE [f |-> cd1, iters |-> iters + 1]

prev_weekday(cdf, wd) == prev_weekday_loop(cdf, wd, 0)

get_yearday(cdf) ==
  difference("day", cdf,
             civil_time_convert("day", civil_time_convert("year", cdf))) + 1

---------------------------------------------------------------------------
\* The state: a civil_time object a = (tag, v), a second object b =
\* (rtag, rhs), and a record of what the program did last.
VARIABLES
  pc,    \* "start": the constructor arguments are in op, a is not built yet;
         \* "object": a is live; "ready": a and b are built and one expression
         \* is to be evaluated; "done": it has been evaluated
  tag,   \* the alignment T of object a
  v,     \* a.f_
  rtag,  \* the alignment of object b
  rhs,   \* b.f_
  k,     \* operations applied to a since it was constructed
  hist,  \* those operations: [name, n, tag, before], before = a.f_ before it
  op,    \* the last operation and its integer arguments
  res    \* what the last operation returned

vars == <<pc, tag, v, rtag, rhs, k, hist, op, res>>

\* Bound on the operations applied to one object after its construction.
MaxOps == 2

None == [kind |-> "none"]
TimeRes(T, f) == [kind |-> "time", tag |-> T, f |-> f]
IntRes(i) == [kind |-> "int", val |-> i]
BoolRes(b) == [kind |-> "bool", b |-> b]
WdayRes(w, i) == [kind |-> "weekday", wd |-> w, index |-> i]
LoopRes(r) == [kind |-> "time", tag |-> "day", f |-> r.f, iters |-> r.iters]
Trapped == [kind |-> "trap"]

Op(name, a) == [name |-> name, a |-> a]

\* The program is about to call civil_time<T>(a[1], ..., a[6]) for one of the
\* <<T, a>> of Inputs.
InitArgs(Inputs) ==
  \E i \in Inputs :
    /\ pc = "start"
    /\ tag = i[1]
    /\ v = civil_time_default(i[1])
    /\ op = Op("args", i[2])
    /\ rtag = "second"
    /\ rhs = civil_time_default("second")
    /\ k = 0
    /\ hist = <<>>
    /\ res = None

\* civil_time<T>(y, m, d, hh, mm, ss)
Construct ==
  /\ pc = "start"
  /\ pc' = "object"
  /\ v' = civil_time(tag, op.a[1], op.a[2], op.a[3], op.a[4], op.a[5], op.a[6])
  /\ op' = Op("civil_time", op.a)
  /\ UNCHANGED <<tag, rtag, rhs, k, hist, res>>

\* One more operation on a: counted and logged.
Logged(name, n) ==
  /\ k' = k + 1
  /\ hist' = Append(hist, [name |-> name, n |-> n, tag |-> tag, before |-> v])
  /\ op' = Op(name, <<n>>)

\* a = civil_time<U>(a) for another alignment U, finer (implicit conversion)
\* or coarser (explicit).
Convert ==
  \E U \in Tags \ {tag} :
    /\ pc = "object" /\ k < MaxOps
    /\ tag' = U
    /\ v' = civil_time_convert(U, v)
    /\ Logged("convert", 0)
    /\ res' = None
    /\ UNCHANGED <<pc, rtag, rhs>>

PlusAssign(NSet) ==
  \E n \in NSet :
    /\ pc = "object" /\ k < MaxOps
    /\ step_fits(tag, v, n)
    /\ v' = plus_assign(tag, v, n)
    /\ Logged("+=", n)
    /\ res' = None
    /\ UNCHANGED <<pc, tag, rtag, rhs>>

MinusAssign(NSet) ==
  \E n \in NSet :
    /\ pc = "object" /\ k < MaxOps
    /\ minus_assign_fits(tag, v, n)
    /\ v' = minus_assign(tag, v, n)
    /\ Logged("-=", n)
    /\ res' = None
    /\ UNCHANGED <<pc, tag, rtag, rhs>>

\* operator++(): return *this += 1
PreInc ==
  /\ pc = "object" /\ k < MaxOps
  /\ step_fits(tag, v, 1)
  /\ v' = plus_assign(tag, v, 1)
  /\ Logged("++a", 1)
  /\ res' = None
  /\ UNCHANGED <<pc, tag, rtag, rhs>>

\* operator++(int): a = *this; ++*this; return a
PostInc ==
  /\ pc = "object" /\ k < MaxOps
  /\ step_fits(tag, v, 1)
  /\ v' = plus_assign(tag, v, 1)
  /\ Logged("a++", 1)
  /\ res' = TimeRes(tag, v)
  /\ UNCHANGED <<pc, tag, rtag, rhs>>

\* operator--(): return *this -= 1
PreDec ==
  /\ pc = "object" /\ k < MaxOps
  /\ minus_assign_fits(tag, v, 1)
  /\ v' = minus_assign(tag, v, 1)
  /\ Logged("--a", 1)
  /\ res' = None
  /\ UNCHANGED <<pc, tag, rtag, rhs>>

\* operator--(int): a = *this; --*this; return a
PostDec ==
  /\ pc = "object" /\ k < MaxOps
  /\ minus_assign_fits(tag, v, 1)
  /\ v' = minus_assign(tag, v, 1)
  /\ Logged("a--", 1)
  /\ res' = TimeRes(tag, v)
  /\ UNCHANGED <<pc, tag, rtag, rhs>>

\* a = a + n: operator+(a, n), assigned back.
AssignPlus(NSet) ==
  \E n \in NSet :
    /\ pc = "object" /\ k < MaxOps
    /\ step_fits(tag, v, n)
    /\ v' = op_plus(tag, v, n)
    /\ Logged("a=a+n", n)
    /\ res' = None
    /\ UNCHANGED <<pc, tag, rtag, rhs>>

\* a = a - n: operator-(a, n), assigned back.  When -n overflows and the
\* build traps, the program ends there.
AssignMinus(NSet) ==
  \E n \in NSet :
    \E o \in neg_outcomes(n) :
      /\ pc = "object" /\ k < MaxOps
      /\ op_minus_defined(tag, v, n)
      /\ IF o.trap
         THEN /\ pc' = "done"
              /\ op' = Op("a=a-n", <<n>>)
              /\ res' = Trapped
              /\ UNCHANGED <<v, k, hist>>
         ELSE /\ v' = op_minus(tag, v, o.val)
              /\ Logged("a=a-n", n)
              /\ res' = None
              /\ UNCHANGED pc
      /\ UNCHANGED <<tag, rtag, rhs>>

\* The integers the object-lifecycle specification constructs from and steps
\* by: the epoch, the end of a leap day, and fields that all need a borrow.
BaseArgs ==
  { <<1970, 1, 1, 0, 0, 0>>,
    <<2000, 2, 29, 23, 59, 59>>,
    <<1900, 2, 28, 23, 59, 59>>,
    <<-1, 0, -1, -1, -1, -1>> }

BaseInputs == Tags \X BaseArgs

StepArgs == {MinInt, -366, 60, MaxInt}

Init == InitArgs(BaseInputs)

Next ==
  \/ Construct
  \/ Convert
  \/ PlusAssign(StepArgs)
  \/ MinusAssign(StepArgs)
  \/ PreInc
  \/ PostInc
  \/ PreDec
  \/ PostDec
  \/ AssignPlus(StepArgs)
  \/ AssignMinus(StepArgs)

Spec == Init /\ [][Next]_vars

---------------------------------------------------------------------------
\* Construction from out-of-range integers.
DayReach == 32

NormYears == {-401, -400, -1, 0, 1899, 1900, 1970, 2000, 2016, 2100}

NormDays ==
  (-DayReach .. DayReach) \cup
  { MinInt, MinInt + 1, -146098, -146097, -36525, -36524, -1461, -366, -365,
    59, 60, 365, 366, 1461, 36524, 36525, 146097, 146098, 292194, MaxInt }

DateArgs == { <<y, m, d, 0, 0, 0>> : y \in NormYears, m \in 1 .. 12, d \in NormDays }

ClockMonths == {-12, -1, 0, 1, 12, 13, 25}
ClockHours == {MinInt, -25, -1, 0, 23, 24, MaxInt}
ClockMinutes == {MinInt, -61, -1, 0, 59, 60, MaxInt}
ClockSeconds == {MinInt, -60, -1, 0, 59, 61, MaxInt}

ClockArgs ==
  { <<2015, m, d, hh, mm, ss>> :
      m \in ClockMonths, d \in {1, 31}, hh \in ClockHours,
      mm \in ClockMinutes, ss \in ClockSeconds }

NormInputs == ({"day"} \X DateArgs) \cup (Tags \X ClockArgs)

InitNorm == InitArgs(NormInputs)

NextNorm == Construct

SpecNorm == InitNorm /\ [][NextNorm]_vars

---------------------------------------------------------------------------
\* One binary arithmetic expression on a constructed object a.
InitObject(Inputs) ==
  \E i \in Inputs :
    /\ pc = "ready"
    /\ tag = i[1]
    /\ v = civil_time(i[1], i[2][1], i[2][2], i[2][3], i[2][4], i[2][5], i[2][6])
    /\ op = Op("civil_time", i[2])
    /\ rtag = "second"
    /\ rhs = civil_time_default("second")
    /\ k = 0
    /\ hist = <<>>
    /\ res = None

Returns(name, a, r) ==
  /\ pc' = "done"
  /\ op' = Op(name, a)
  /\ res' = r
  /\ UNCHANGED <<tag, v, rtag, rhs, k, hist>>

\* operator+(a, n)
OpPlus(NSet) ==
  \E n \in NSet :
    /\ pc = "ready"
    /\ step_fits(tag, v, n)
    /\ Returns("a+n", <<n>>, TimeRes(tag, op_plus(tag, v, n)))

\* operator+(n, a)
OpPlusLeft(NSet) ==
  \E n \in NSet :
    /\ pc = "ready"
    /\ step_fits(tag, v, n)
    /\ Returns("n+a", <<n>>, TimeRes(tag, op_plus(tag, v, n)))

\* operator-(a, n)
OpMinus(NSet) ==
  \E n \in NSet :
    \E o \in neg_outcomes(n) :
      /\ pc = "ready"
      /\ op_minus_defined(tag, v, n)
      /\ IF o.trap THEN Returns("a-n", <<n>>, Trapped)
         ELSE Returns("a-n", <<n>>, TimeRes(tag, op_minus(tag, v, o.val)))

\* The expression (a + n) + m.
OpPlusPlus(NSet) ==
  \E n \in NSet, m \in NSet :
    /\ pc = "ready"
    /\ step_fits(tag, v, n)
    /\ step_fits(tag, op_plus(tag, v, n), m)
    /\ Returns("(a+n)+m", <<n, m>>,
               TimeRes(tag, op_plus(tag, op_plus(tag, v, n), m)))

ArithArgs ==
  { <<1970, 1, 1, 0, 0, 0>>,
    <<2000, 2, 29, 23, 59, 59>>,
    <<1900, 2, 28, 12, 30, 30>>,
    <<1999, 12, 31, 23, 59, 59>>,
    <<-1, 3, 1, 0, 0, 0>>,
    <<2100, 1, 31, 0, 0, 1>> }

ArithInputs == Tags \X ArithArgs

ArithSteps ==
  { MinInt, -146097, -36525, -1461, -366, -31, -1, 1, 28, 59, 365, 1460,
    36524, 146097, MaxInt }

InitArith == InitObject(ArithInputs)

NextArith ==
  \/ OpPlus(ArithSteps)
  \/ OpPlusLeft(ArithSteps)
  \/ OpMinus(ArithSteps)
  \/ OpPlusPlus(ArithSteps)

SpecArith == InitArith /\ [][NextArith]_vars

---------------------------------------------------------------------------
\* One difference or comparison of two constructed objects a and b.
InitPair(InputsA, InputsB) ==
  \E i \in InputsA, j \in InputsB :
    /\ pc = "ready"
    /\ tag = i[1]
    /\ v = civil_time(i[1], i[2][1], i[2][2], i[2][3], i[2][4], i[2][5], i[2][6])
    /\ rtag = j[1]
    /\ rhs = civil_time(j[1], j[2][1], j[2][2], j[2][3], j[2][4], j[2][5], j[2][6])
    /\ op = Op("civil_time", i[2])
    /\ k = 0
    /\ hist = <<>>
    /\ res = None

\* operator-(a, b) of two objects of one alignment.  An int overflow inside
\* difference() is undefined: the build wraps, or traps.
Difference ==
  /\ pc = "ready"
  /\ tag = rtag
  /\ \/ Returns("a-b", <<>>, IntRes(difference(tag, v, rhs)))
     \/ /\ ~difference_fits(tag, v, rhs)
        /\ Returns("a-b", <<>>, Trapped)

Lt == pc = "ready" /\ Returns("a<b", <<>>, BoolRes(op_lt(v, rhs)))

Le == pc = "ready" /\ Returns("a<=b", <<>>, BoolRes(op_le(v, rhs)))

Ge == pc = "ready" /\ Returns("a>=b", <<>>, BoolRes(op_ge(v, rhs)))

Gt == pc = "ready" /\ Returns("a>b", <<>>, BoolRes(op_gt(v, rhs)))

Eq == pc = "ready" /\ Returns("a==b", <<>>, BoolRes(op_eq(v, rhs)))

Ne == pc = "ready" /\ Returns("a!=b", <<>>, BoolRes(op_ne(v, rhs)))


CmpArgs ==
  { <<1902, 1, 1, 0, 0, 0>>,
    <<1970, 1, 1, 0, 0, 0>>,
    <<1999, 12, 31, 23, 59, 59>>,
    <<2000, 1, 1, 0, 0, 0>>,
    <<2000, 1, 1, 0, 0, 1>>,
    <<2000, 1, 1, 0, 1, 0>>,
    <<2000, 1, 1, 1, 0, 0>>,
    <<2000, 1, 2, 0, 0, 0>>,
    <<2000, 1, 31, 23, 59, 59>>,
    <<2000, 2, 1, 0, 0, 0>>,
    <<2038, 1, 19, 3, 14, 8>>,
    <<5881580, 7, 11, 0, 0, 0>>,
    <<-1, 12, 31, 23, 59, 59>> }

CmpInputs == Tags \X CmpArgs

InitCmp == InitPair(CmpInputs, CmpInputs)

NextCmp == Difference \/ Lt \/ Le \/ Ge \/ Gt \/ Eq \/ Ne

SpecCmp == InitCmp /\ [][NextCmp]_vars

---------------------------------------------------------------------------
\* The weekday utilities on a constructed civil_day.
GetWeekday ==
  /\ pc = "ready"
  /\ Returns("get_weekday", <<>>, WdayRes(get_weekday(v), weekday_index(v)))

NextWeekday ==
  \E i \in 1 .. 7 :
    /\ pc = "ready"
    /\ Returns("next_weekday", <<i>>, LoopRes(next_weekday(v, Weekdays[i])))

PrevWeekday ==
  \E i \in 1 .. 7 :
    /\ pc = "ready"
    /\ Returns("prev_weekday", <<i>>, LoopRes(prev_weekday(v, Weekdays[i])))

GetYearday ==
  /\ pc = "ready"
  /\ Returns("get_yearday", <<>>, IntRes(get_yearday(v)))

WeekYears == {-400, -1, 1900, 1969, 1970, 2000, 2016}

WeekArgs ==
  { <<y, m, d, 0, 0, 0>> : y \in WeekYears, m \in 1 .. 12, d \in {1, 15, 28, 31} }

InitWeek == InitObject({"day"} \X WeekArgs)

NextWeek == GetWeekday \/ NextWeekday \/ PrevWeekday \/ GetYearday

SpecWeek == InitWeek /\ [][NextWeek]_vars
---------------------------------------------------------------------------
\* Reference calendar, independent of the code above: the Gregorian leap rule,
\* the month lengths, and the day number counted from the leap years elapsed
\* (1970-01-01 is day 0).  / and mod are the mathematical (floored) ones.
RefLeap(y) == y % 4 = 0 /\ (y % 100 # 0 \/ y % 400 = 0)

RefDaysInMonth(y, m) ==
  CASE m \in {4, 6, 9, 11} -> 30
    [] m = 2 -> IF RefLeap(y) THEN 29 ELSE 28
    [] OTHER -> 31

RefDaysBeforeMonth == <<0, 31, 59, 90, 120, 151, 181, 212, 243, 273, 304, 334>>

RefOrd(y, m, d) ==
  365 * (y - 1) + ((y - 1) \div 4) - ((y - 1) \div 100) + ((y - 1) \div 400)
    + RefDaysBeforeMonth[m] + (IF m > 2 /\ RefLeap(y) THEN 1 ELSE 0) + d
    - 719163

\* floor((a + b) / q) and (a + b) mod q without forming a + b.
RefSumDiv(a, b, q) == (a \div q) + (b \div q) + (((a % q) + (b % q)) \div q)

RefSumMod(a, b, q) == ((a % q) + (b % q)) % q

Tuple(f) == <<f.y, f.m, f.d, f.hh, f.mm, f.ss>>

LexLess(A, B) ==
  \E i \in 1 .. 6 : A[i] < B[i] /\ \A j \in 1 .. (i - 1) : A[j] = B[j]

Canonical(T, f) ==
  /\ f.m \in 1 .. 12
  /\ f.d \in 1 .. RefDaysInMonth(f.y, f.m)
  /\ f.hh \in 0 .. 23
  /\ f.mm \in 0 .. 59
  /\ f.ss \in 0 .. 59
  /\ TagRank(T) >= 1 => f.ss = 0
  /\ TagRank(T) >= 2 => f.mm = 0
  /\ TagRank(T) >= 3 => f.hh = 0
  /\ TagRank(T) >= 4 => f.d = 1
  /\ TagRank(T) >= 5 => f.m = 1

\* a.f_ after the i-th logged operation.
After(i) == IF i = Len(hist) THEN v ELSE hist[i + 1].before

SuccWeekday(w) ==
  LET i == CHOOSE j \in 1 .. 7 : Weekdays[j] = w
  IN Weekdays[(i % 7) + 1]

Epoch == Fields(1970, 1, 1, 0, 0, 0)

---------------------------------------------------------------------------
\* C1: every civil_time value the program holds or returns -- constructed
\* from six integers, converted from another alignment, or stepped by +=, -=,
\* ++, --, + and - -- has month 1..12, day 1..days_in_month, hour 0..23,
\* minute and second 0..59, and every field finer than its alignment at its
\* minimum; += and -= included, which store step()'s result as it is.
Inv_C1 ==
  /\ Canonical(tag, v)
  /\ res.kind = "time" => Canonical(res.tag, res.f)
  /\ \A i \in 1 .. Len(hist) : Canonical(hist[i].tag, hist[i].before)

\* A month-aligned value, narrowed from a second-aligned one that was built
\* from fields needing a borrow, after += of the largest int.
Witness_C1 ==
  /\ k = 2
  /\ hist[1].name = "convert" /\ hist[1].tag = "second"
  /\ hist[1].before = Fields(-2, 11, 28, 22, 58, 59)
  /\ tag = "month"
  /\ op = Op("+=", <<MaxInt>>)
  /\ v.y > 100000000

\* C2: civil_day(y, m, d) with 1 <= m <= 12 and any d is the Gregorian date
\* d - 1 days after y-m-01: it equals civil_day(y, m, 1) + (d - 1), it is a
\* valid date of the calendar whose February has 29 days exactly in leap
\* years, and its day number is that of y-m-01 plus d - 1.  2000-02-29 stays,
\* and is 2000-02-28 + 1; 1900-02-29 becomes 1900-03-01.
Inv_C2 ==
  (pc = "object" /\ op.name = "civil_time" /\ tag = "day"
     /\ op.a[2] \in 1 .. 12
     /\ op.a[4] = 0 /\ op.a[5] = 0 /\ op.a[6] = 0) =>
    LET y == op.a[1]
        m == op.a[2]
        d == op.a[3]
    IN /\ v.m \in 1 .. 12
       /\ v.d \in 1 .. RefDaysInMonth(v.y, v.m)
       /\ d # MinInt =>
            v = op_plus("day", civil_time("day", y, m, 1, 0, 0, 0), d - 1)
       /\ d = MinInt =>
            v = op_plus("day",
                        op_plus("day", civil_time("day", y, m, 1, 0, 0, 0), d),
                        -1)
       /\ (d >= -1000000000 /\ d <= 1000000000) =>
            RefOrd(v.y, v.m, v.d) = RefOrd(y, m, 1) + (d - 1)
       /\ (y = 2000 /\ m = 2 /\ d = 29) =>
            /\ v = Fields(2000, 2, 29, 0, 0, 0)
            /\ v = op_plus("day", civil_time("day", 2000, 2, 28, 0, 0, 0), 1)
       /\ (y = 1900 /\ m = 2 /\ d = 29) => v = Fields(1900, 3, 1, 0, 0, 0)

Witness_C2 ==
  /\ pc = "object"
  /\ tag = "day"
  /\ op = Op("civil_time", <<1900, 2, 29, 0, 0, 0>>)
  /\ v = Fields(1900, 3, 1, 0, 0, 0)

\* C3: construction carries with floored division: second = ss mod 60,
\* minute = (mm + floor(ss/60)) mod 60, hour = (hh + carry) mod 24, all
\* non-negative; the rest, floor(.../24), is a signed number of days added to
\* the date; the month is folded as ((m-1) mod 12) + 1 with the year moved by
\* floor((m-1)/12).  (Fields below the alignment are not compared.)
Inv_C3 ==
  (pc = "object" /\ op.name = "civil_time"
     /\ op.a[3] >= -100000000 /\ op.a[3] <= 100000000) =>
    LET y   == op.a[1]
        m   == op.a[2]
        d   == op.a[3]
        hh  == op.a[4]
        mm  == op.a[5]
        ss  == op.a[6]
        cs  == ss \div 60
        cm  == RefSumDiv(mm, cs, 60)
        ch  == RefSumDiv(hh, cm, 24)
        fy  == y + ((m - 1) \div 12)
        fm  == ((m - 1) % 12) + 1
        ord == RefOrd(fy, fm, 1) + (d - 1) + ch
    IN /\ TagRank(tag) = 0 => v.ss = ss % 60
       /\ TagRank(tag) <= 1 => v.mm = RefSumMod(mm, cs, 60)
       /\ TagRank(tag) <= 2 => v.hh = RefSumMod(hh, cm, 24)
       /\ TagRank(tag) <= 3 => RefOrd(v.y, v.m, v.d) = ord
       /\ tag = "month" =>
            /\ RefOrd(v.y, v.m, 1) <= ord
            /\ ord <= RefOrd(v.y, v.m, RefDaysInMonth(v.y, v.m))
       /\ tag = "year" =>
            /\ RefOrd(v.y, 1, 1) <= ord
            /\ ord <= RefOrd(v.y, 12, 31)
       /\ (d \in 1 .. 28 /\ ch = 0) =>
            /\ v.y = fy
            /\ tag # "year" => v.m = fm

\* second = -1, minute = -1, hour = -1 and month 13: each borrows from the
\* next field, and 2016-01-01 loses a day.
Witness_C3 ==
  /\ pc = "object"
  /\ tag = "second"
  /\ op = Op("civil_time", <<2015, 13, 1, -1, -1, -1>>)
  /\ v = Fields(2015, 12, 31, 22, 58, 59)

\* C4: a += n followed by a -= n with the same n restores a, field for
\* field, n = INT_MIN included, whenever both steps stay inside the year
\* range.
Inv_C4 ==
  \A i \in 1 .. (Len(hist) - 1) :
    (hist[i].name = "+=" /\ hist[i + 1].name = "-="
       /\ hist[i].n = hist[i + 1].n) =>
      After(i + 1) = hist[i].before

Witness_C4 ==
  /\ Len(hist) = 2
  /\ hist[1].name = "+=" /\ hist[1].n = MinInt
  /\ hist[2].name = "-=" /\ hist[2].n = MinInt
  /\ tag = "day"
  /\ hist[2].before.y < -5000000
  /\ v = Fields(2000, 2, 29, 0, 0, 0)

\* C5: (a + n) + m == a + (n + m) whenever n + m fits in int and the results
\* stay inside the year range.
Inv_C5 ==
  (op.name = "(a+n)+m" /\ AddFits(op.a[1], op.a[2])
     /\ step_fits(tag, v, op.a[1] + op.a[2])) =>
    res = TimeRes(tag, op_plus(tag, v, op.a[1] + op.a[2]))

\* From the leap day 2000-02-29 back over 1900 and forward over 2000 again.
Witness_C5 ==
  /\ op = Op("(a+n)+m", <<-36525, 146097>>)
  /\ tag = "day"
  /\ v = Fields(2000, 2, 29, 0, 0, 0)
  /\ res.kind = "time"
  /\ res.f.y = 2300

\* C6, as claimed: for any two values a, b of one alignment, a - b is an int
\* with b + (a - b) == a.
Claim_C6 ==
  op.name = "a-b" =>
    /\ res.kind = "int"
    /\ step_fits(tag, rhs, res.val)
    /\ op_plus(tag, rhs, res.val) = v

\* C6, where it does hold: when no int operation of difference() overflows
\* (the day ordinals, the products by 24, 60 and 60 and the sums), a - b is
\* the exact count of units: b + (a - b) == a; the hour, minute and second
\* counts are built from the day count as day*24 + hours, *60 + minutes,
\* *60 + seconds; and the day count is the difference of the day numbers in
\* which 1970-01-01 is day 0.
Inv_C6 ==
  (op.name = "a-b" /\ difference_fits(tag, v, rhs)) =>
    LET days == RefOrd(v.y, v.m, v.d) - RefOrd(rhs.y, rhs.m, rhs.d)
        hours == days * 24 + (v.hh - rhs.hh)
        minutes == hours * 60 + (v.mm - rhs.mm)
    IN /\ res.kind = "int"
       /\ step_fits(tag, rhs, res.val)
       /\ op_plus(tag, rhs, res.val) = v
       /\ tag = "day" => res.val = days
       /\ tag = "hour" => res.val = hours
       /\ tag = "minute" => res.val = minutes
       /\ tag = "second" => res.val = minutes * 60 + (v.ss - rhs.ss)
       /\ (tag = "day" /\ rhs = Epoch) => res.val = RefOrd(v.y, v.m, v.d)

\* Thirty years in seconds, from the epoch to 2000-01-01T00:00:01.
Witness_C6 ==
  /\ op.name = "a-b"
  /\ tag = "second"
  /\ rhs = Epoch
  /\ v = Fields(2000, 1, 1, 0, 0, 1)
  /\ res = IntRes(946684801)

\* C7: for two values of any alignments, < is the lexicographic order of the
\* six fields, == is equality of the six fields, exactly one of <, ==, >
\* holds, and <=, >=, != are the negations of >, <, ==.  A month-aligned
\* value equals the first day of its month and is less than its later days.
Inv_C7 ==
  LET A == Tuple(v)
      B == Tuple(rhs)
  IN /\ op.name = "a<b" => res = BoolRes(LexLess(A, B))
     /\ op.name = "a>b" => res = BoolRes(LexLess(B, A))
     /\ op.name = "a==b" => res = BoolRes(A = B)
     /\ op.name = "a<=b" => res = BoolRes(~LexLess(B, A))
     /\ op.name = "a>=b" => res = BoolRes(~LexLess(A, B))
     /\ op.name = "a!=b" => res = BoolRes(A # B)
     /\ Cardinality({x \in {"lt", "eq", "gt"} :
                       \/ x = "lt" /\ op_lt(v, rhs)
                       \/ x = "eq" /\ op_eq(v, rhs)
                       \/ x = "gt" /\ op_gt(v, rhs)}) = 1
     /\ (tag = "month" /\ rtag = "day" /\ v.y = rhs.y /\ v.m = rhs.m) =>
          /\ op_eq(v, rhs) <=> rhs.d = 1
          /\ rhs.d > 1 => op_lt(v, rhs)

\* civil_month(2000, 1) < civil_day(2000, 1, 31).
Witness_C7 ==
  /\ op.name = "a<b"
  /\ tag = "month" /\ v = Fields(2000, 1, 1, 0, 0, 0)
  /\ rtag = "day" /\ rhs = Fields(2000, 1, 31, 0, 0, 0)
  /\ res = BoolRes(TRUE)

\* C8: 1970-01-01 is a Thursday; the weekday of cd + 1 is the cyclic
\* successor of the weekday of cd, so that of cd + 7 is the same; the table
\* index is within 0..6, before the epoch too.
Inv_C8 ==
  op.name = "get_weekday" =>
    /\ res.kind = "weekday"
    /\ res.index \in 0 .. 6
    /\ v = Epoch => res.wd = "thursday"
    /\ get_weekday(op_plus("day", v, 1)) = SuccWeekday(res.wd)
    /\ get_weekday(op_plus("day", v, 7)) = res.wd

\* The day before the epoch is a Wednesday.
Witness_C8 ==
  /\ op.name = "get_weekday"
  /\ v = Fields(1969, 12, 31, 0, 0, 0)
  /\ res = WdayRes("wednesday", 6)

\* C9: next_weekday(cd, wd) takes k loop iterations, 1 <= k <= 7, and returns
\* cd + k, the first day after cd that falls on wd (cd + 7 when cd falls on
\* wd); prev_weekday(cd, wd) likewise returns cd - k, the last day before cd
\* that falls on wd; neither returns cd.
Inv_C9 ==
  /\ op.name = "next_weekday" =>
       /\ res.iters \in 1 .. 7
       /\ res.f = op_plus("day", v, res.iters)
       /\ res.f # v
       /\ get_weekday(res.f) = Weekdays[op.a[1]]
       /\ \A j \in 1 .. (res.iters - 1) :
            get_weekday(op_plus("day", v, j)) # Weekdays[op.a[1]]
       /\ get_weekday(v) = Weekdays[op.a[1]] => res.iters = 7
  /\ op.name = "prev_weekday" =>
       /\ res.iters \in 1 .. 7
       /\ res.f = op_plus("day", v, -res.iters)
       /\ res.f # v
       /\ get_weekday(res.f) = Weekdays[op.a[1]]
       /\ \A j \in 1 .. (res.iters - 1) :
            get_weekday(op_plus("day", v, -j)) # Weekdays[op.a[1]]
       /\ get_weekday(v) = Weekdays[op.a[1]] => res.iters = 7

\* From Thursday 1970-01-01 to the next Thursday: seven iterations.
Witness_C9 ==
  /\ op = Op("next_weekday", <<4>>)
  /\ v = Epoch
  /\ res.iters = 7
  /\ res.f = Fields(1970, 1, 8, 0, 0, 0)

\* C10, as claimed: a - n returns the value a holds after a -= n, for every
\* int n for which a -= n is defined, INT_MIN included.
Claim_C10 ==
  (op.name = "a-n" /\ minus_assign_fits(tag, v, op.a[1])) =>
    res = TimeRes(tag, minus_assign(tag, v, op.a[1]))

====
